---- MODULE Spec2Model ----
(***************************************************************************)
(* Model of the IoT greenhouse backend: idempotent sensor ingestion        *)
(* (SensorService / SensorController), device command tracking             *)
(* (DeviceService / DeviceController) and the shared MQTT client           *)
(* (MQTTService).  Node.js runs one callback at a time, so every action    *)
(* is the code that runs between two awaits; a database call is one        *)
(* action that applies the statement and resumes the awaiting handler.     *)
(***************************************************************************)
EXTENDS Integers, Sequences, FiniteSets, Bags, TLC

(***************************************************************************)
(* Bounds of the model.                                                    *)
(***************************************************************************)
MaxSensorReq == 2
MaxCmdReq == 2

SReq == 1..MaxSensorReq
CReq == 1..MaxCmdReq

VARIABLES
    readings,        \* table sensor_readings: a set of rows
    nextReadingId,   \* uuid_generate_v4() for sensor_readings, as a fresh counter
    spc,             \* per sensor request: "idle", "find", "save", "done"
    sbody,           \* per sensor request: req.body
    sresp,           \* per sensor request: the HTTP response sent
    shist,           \* per sensor request: what the request met (history)
    commands,        \* table device_commands: a set of rows
    nextCommandId,   \* uuid_generate_v4() for device_commands, as a fresh counter
    cpc,             \* per command request: "idle", "insert", "savePublished", "saveError", "done"
    cbody,           \* per command request: req.body
    crec,            \* per command request: the in-memory entity savedCommand
    cerr,            \* per command request: message of the error caught in the service
    cresp,           \* per command request: the HTTP response sent
    chist,           \* per command request: what the request met (history)
    server,          \* startServer: "starting", "awaitMqtt", "listening"
    client,          \* MQTTService.client: "null" or "client"
    connected,       \* client.connected
    isConnecting,    \* MQTTService.isConnecting
    hasInitiallyConnected, \* MQTTService.hasInitiallyConnected
    isFirstConnection,     \* the closure variable of connect()
    mqttSent,        \* the bag of messages handed to client.publish
    hpc,             \* per health request: "idle", "query", "stalled", "done"
    hmqtt,           \* per health request: the settled value of checkMQTT()
    hresp,           \* per health request: the HTTP response sent
    hhist,           \* per health request: what the probes met (history)
    mresp,           \* per /mqtt request: the HTTP response sent
    mqttSubs,        \* the topics handed to client.subscribe, one per call, in call order
    subLog,          \* per client.subscribe call: what its callback was called with
    subClient,       \* per client.subscribe call: the client it was made on
    connCalls,       \* number of connect() calls made after startServer's
    connLast,        \* the last of these calls: broker state it met, branch taken
    orphans,         \* clients that MQTTService.client no longer points to
    waiters,         \* the polling promises of connect(), in call order
    proc,            \* the process: "running", "closing" (a signal handler awaits
                     \* AppDataSource.destroy()), "exited"
    ended            \* client.end() was called on MQTTService.client

sensorVars == <<readings, nextReadingId, spc, sbody, sresp, shist>>
deviceVars == <<commands, nextCommandId, cpc, cbody, crec, cerr, cresp, chist>>
mqttVars == <<server, client, connected, isConnecting, hasInitiallyConnected,
              isFirstConnection, mqttSent>>
healthVars == <<hpc, hmqtt, hresp, hhist>>
routeVars == <<mresp, mqttSubs, subLog, subClient>>
connVars == <<connCalls, connLast, orphans, waiters>>
shutdownVars == <<proc, ended>>
otherVars == <<healthVars, routeVars, connVars, shutdownVars>>
vars == <<sensorVars, deviceVars, mqttVars, otherVars>>

\* The process has not called process.exit: its callbacks still run.
ProcessAlive == proc # "exited"

(***************************************************************************)
(* Errors.  An error is its message; the controllers branch on substrings  *)
(* of the message, given here as tables over the messages of the model.    *)
(***************************************************************************)
ErrConnRefused == "connect ECONNREFUSED 127.0.0.1:5432"
ErrConnTerminated == "Connection terminated unexpectedly"
ErrHostNotFound == "getaddrinfo ENOTFOUND postgres"
ErrStatementTimeout == "canceling statement due to statement timeout"
ErrUniqueViolation ==
    "duplicate key value violates unique constraint UQ_sensor_readings_deviceId_timestamp"
ErrNoClient == "MQTT client not connected"
NoError == ""

\* The failures a database call can end with (the driver's messages).
DbErrors == {ErrConnRefused, ErrConnTerminated, ErrHostNotFound, ErrStatementTimeout}

\* The failures of findOne and save in the sensor service: the database
\* server refuses, drops, or cannot be found; the constraint violation of
\* save is UniqueViolation.
SensorDbErrors == {ErrConnRefused, ErrConnTerminated, ErrHostNotFound}

\* error.message.includes('connect')
IncludesConnect(msg) == msg \in {ErrConnRefused, ErrNoClient}

\* error.message.includes('Connection')
IncludesConnection(msg) == msg \in {ErrConnTerminated}

(***************************************************************************)
(* Sensor ingestion.                                                       *)
(***************************************************************************)
NaN == -1

\* Date.parse(val) / new Date(val), in seconds since the epoch.
DateParse(val) ==
    CASE val = "2025-12-26T20:00:00Z" -> 1766779200
      [] val = "2025-12-26T20:00:00.000Z" -> 1766779200
      [] val = "2025-12-27T20:00:00Z" -> 1766865600
      [] OTHER -> NaN

\* The request bodies of the model; battery is <<>> when absent.
SensorPayloads ==
    { [device_id |-> "sensor-001", timestamp |-> "2025-12-26T20:00:00Z",
       temperature |-> 25, humidity |-> 60, battery |-> <<85>>],
      [device_id |-> "sensor-001", timestamp |-> "2025-12-26T20:00:00Z",
       temperature |-> 30, humidity |-> 0, battery |-> <<>>],
      [device_id |-> "sensor-001", timestamp |-> "2025-12-26T20:00:00.000Z",
       temperature |-> 25, humidity |-> 60, battery |-> <<85>>],
      [device_id |-> "sensor-001", timestamp |-> "2025-12-27T20:00:00Z",
       temperature |-> 25, humidity |-> 60, battery |-> <<85>>],
      [device_id |-> "sensor-002", timestamp |-> "2025-12-26T20:00:00Z",
       temperature |-> 25, humidity |-> 60, battery |-> <<>>],
      [device_id |-> "sensor-001", timestamp |-> "not-a-date",
       temperature |-> 25, humidity |-> 60, battery |-> <<>>],
      [device_id |-> "sensor-001", timestamp |-> "2025-12-26T20:00:00Z",
       temperature |-> 25, humidity |-> -1, battery |-> <<>>],
      [device_id |-> "", timestamp |-> "2025-12-26T20:00:00Z",
       temperature |-> 25, humidity |-> 60, battery |-> <<>>] }

NoBody ==
    [device_id |-> "", timestamp |-> "", temperature |-> 0, humidity |-> 0,
     battery |-> <<>>]

SensorIssuesAnyHumidity(body) ==
    (IF body.device_id = "" THEN {"device_id"} ELSE {})
    \cup (IF DateParse(body.timestamp) = NaN THEN {"timestamp"} ELSE {})

\* createSensorDataSchema: the fields of the body that raise a Zod issue.
SensorIssues(body) ==
    (IF body.device_id = "" THEN {"device_id"} ELSE {})
    \cup (IF DateParse(body.timestamp) = NaN THEN {"timestamp"} ELSE {})
    \cup (IF body.humidity < 0 THEN {"humidity"} ELSE {})

NoReading ==
    [id |-> 0, deviceId |-> "", timestamp |-> NaN, temperature |-> 0,
     humidity |-> 0, battery |-> <<>>]

\* repository.create({...}) followed by the insert's generated id.
NewReading(body, id) ==
    [id |-> id, deviceId |-> body.device_id, timestamp |-> DateParse(body.timestamp),
     temperature |-> body.temperature, humidity |-> body.humidity,
     battery |-> body.battery]

FindOneByDeviceOnly(rs, deviceId, ts) == {x \in rs : x.deviceId = deviceId}

FindOneNothing(rs, deviceId, ts) == {}

\* repository.findOne({ where: { deviceId, timestamp } }): the matching rows.
FindOne(rs, deviceId, ts) ==
    {x \in rs : x.deviceId = deviceId /\ x.timestamp = ts}

InsertReadingPerDevice(rs, row) ==
    {x \in rs : x.deviceId # row.deviceId} \cup {row}

\* repository.save(newReading) of a new entity: INSERT.
InsertReading(rs, row) == rs \cup {row}

NoUniqueConstraint(rs, row) == FALSE

\* CONSTRAINT UQ_sensor_readings_deviceId_timestamp UNIQUE (deviceId, timestamp):
\* the insert of row is rejected.
UniqueViolation(rs, row) ==
    \E x \in rs : x.deviceId = row.deviceId /\ x.timestamp = row.timestamp

FoundResultOverwritten(existing, body) ==
    [isNew |-> FALSE, id |-> existing.id, data |-> NewReading(body, existing.id)]

\* The service's result when the lookup finds a row.
FoundResult(existing, body) ==
    [isNew |-> FALSE, id |-> existing.id, data |-> existing]

\* The service's result after a successful insert.
CreatedResult(saved) == [isNew |-> TRUE, id |-> saved.id, data |-> saved]

NoSResp ==
    [status |-> 0, success |-> FALSE, error |-> "", id |-> 0, data |-> NoReading,
     details |-> {}]

SensorSuccessResponseAlwaysCreated(result) ==
    [status |-> 201, success |-> TRUE, error |-> "",
     id |-> result.id, data |-> result.data, details |-> {}]

\* SensorController.createSensorData, the try branch.
SensorSuccessResponse(result) ==
    [status |-> IF result.isNew THEN 201 ELSE 200, success |-> TRUE, error |-> "",
     id |-> result.id, data |-> result.data, details |-> {}]

\* SensorController.createSensorData, the catch branch.
SensorErrorResponse(msg) ==
    IF IncludesConnect(msg) \/ IncludesConnection(msg)
    THEN [status |-> 503, success |-> FALSE, error |-> "Database connection error",
          id |-> 0, data |-> NoReading, details |-> {}]
    ELSE [status |-> 500, success |-> FALSE, error |-> "Internal server error",
          id |-> 0, data |-> NoReading, details |-> {}]

\* validate(schema), the ZodError branch.
ValidationResponse(issues) ==
    [status |-> 400, success |-> FALSE, error |-> "Validation failed", id |-> 0,
     data |-> NoReading, details |-> issues]

\* History of a request: the requests answered before it arrived, whether a row
\* with its pair was stored when its lookup ran and when its insert ran, the
\* error its service call threw, and whether the constraint rejected its insert.
NoSHist ==
    [doneBefore |-> {}, stored |-> FALSE, storedAtSave |-> FALSE, error |-> NoError,
     violation |-> FALSE]

\* A row with the pair of this body is stored.
PairStored(body) ==
    \E x \in readings :
        x.deviceId = body.device_id /\ x.timestamp = DateParse(body.timestamp)

SDone(r) == spc[r] = "done"

\* POST /sensor-data arrives: validate, then the service up to its first await.
SensorSubmit(r, body) ==
    /\ ProcessAlive
    /\ server = "listening"
    /\ spc[r] = "idle"
    /\ sbody' = [sbody EXCEPT ![r] = body]
    /\ shist' = [shist EXCEPT ![r].doneBefore = {q \in SReq : SDone(q)}]
    /\ IF SensorIssues(body) # {}
       THEN /\ sresp' = [sresp EXCEPT ![r] = ValidationResponse(SensorIssues(body))]
            /\ spc' = [spc EXCEPT ![r] = "done"]
       ELSE /\ spc' = [spc EXCEPT ![r] = "find"]
            /\ UNCHANGED sresp
    /\ UNCHANGED <<readings, nextReadingId, deviceVars, mqttVars>>
    /\ UNCHANGED otherVars

\* findOne settles with a row or null and the service goes on to its next await.
SensorFindOk(r) ==
    /\ ProcessAlive
    /\ spc[r] = "find"
    /\ LET ts == DateParse(sbody[r].timestamp)
           found == FindOne(readings, sbody[r].device_id, ts)
       IN /\ shist' = [shist EXCEPT ![r].stored = PairStored(sbody[r])]
          /\ IF found # {}
             THEN /\ sresp' = [sresp EXCEPT ![r] = SensorSuccessResponse(
                                 FoundResult(CHOOSE x \in found : TRUE, sbody[r]))]
                  /\ spc' = [spc EXCEPT ![r] = "done"]
             ELSE /\ spc' = [spc EXCEPT ![r] = "save"]
                  /\ UNCHANGED sresp
    /\ UNCHANGED <<readings, nextReadingId, sbody, deviceVars, mqttVars>>
    /\ UNCHANGED otherVars

\* A database call of the request (findOne or save) fails with a driver error.
SensorDbError(r, msg) ==
    /\ ProcessAlive
    /\ spc[r] \in {"find", "save"}
    /\ shist' = [shist EXCEPT ![r].error = msg]
    /\ sresp' = [sresp EXCEPT ![r] = SensorErrorResponse(msg)]
    /\ spc' = [spc EXCEPT ![r] = "done"]
    /\ UNCHANGED <<readings, nextReadingId, sbody, deviceVars, mqttVars>>
    /\ UNCHANGED otherVars

\* repository.save(newReading) settles: the INSERT commits or is rejected by
\* the uniqueness constraint.
SensorSave(r) ==
    /\ ProcessAlive
    /\ spc[r] = "save"
    /\ LET row == NewReading(sbody[r], nextReadingId)
       IN IF UniqueViolation(readings, row)
          THEN /\ shist' = [shist EXCEPT ![r].error = ErrUniqueViolation,
                                         ![r].violation = TRUE,
                                         ![r].storedAtSave = PairStored(sbody[r])]
               /\ sresp' = [sresp EXCEPT ![r] = SensorErrorResponse(ErrUniqueViolation)]
               /\ UNCHANGED <<readings, nextReadingId>>
          ELSE /\ readings' = InsertReading(readings, row)
               /\ nextReadingId' = nextReadingId + 1
               /\ sresp' = [sresp EXCEPT ![r] = SensorSuccessResponse(CreatedResult(row))]
               /\ shist' = [shist EXCEPT ![r].storedAtSave = PairStored(sbody[r])]
    /\ spc' = [spc EXCEPT ![r] = "done"]
    /\ UNCHANGED <<sbody, deviceVars, mqttVars>>
    /\ UNCHANGED otherVars

(***************************************************************************)
(* MQTTService (the guarded variant) as startServer and the broker drive   *)
(* it.  client.publish of a client that is not connected queues the        *)
(* packet and returns, and client.publish of a client that was ended       *)
(* returns too; neither throws.                                            *)
(***************************************************************************)
\* app.listen returns or throws; it is called only when startServer resumes.
ListenOutcomes(resumes) == IF resumes THEN BOOLEAN ELSE {TRUE}

\* startServer resumes after `await mqttService.connect()` settled (resumes)
\* and calls app.listen; when that throws, the outer catch calls
\* process.exit(1).
StartServerListen(resumes, listens) ==
    IF resumes /\ ~listens
    THEN /\ proc' = "exited"
         /\ UNCHANGED <<server, ended>>
    ELSE /\ server' = IF resumes THEN "listening" ELSE server
         /\ UNCHANGED shutdownVars

\* AppDataSource.initialize() rejects: startServer's catch calls
\* process.exit(1) before connect() is reached.
StartServerFails ==
    /\ ProcessAlive
    /\ server = "starting"
    /\ proc' = "exited"
    /\ UNCHANGED <<ended, sensorVars, deviceVars, mqttVars, healthVars, routeVars,
                   connVars>>

\* startServer reaches `await mqttService.connect()`: the first connect() call
\* passes the three guards, sets isConnecting and mqtt.connect returns a client.
StartServerConnect ==
    /\ ProcessAlive
    /\ server = "starting"
    /\ ~(client # "null" /\ connected)
    /\ ~(client # "null" /\ hasInitiallyConnected)
    /\ ~isConnecting
    /\ isConnecting' = TRUE
    /\ client' = "client"
    /\ connected' = FALSE
    /\ isFirstConnection' = TRUE
    /\ server' = "awaitMqtt"
    /\ UNCHANGED <<hasInitiallyConnected, mqttSent, sensorVars, deviceVars>>
    /\ UNCHANGED otherVars

\* The same call when mqtt.connect throws (a broker URL it cannot use): the
\* promise rejects with no client assigned, and startServer goes on to listen.
StartServerConnectThrows ==
    /\ ProcessAlive
    /\ server = "starting"
    /\ client = "null"
    /\ ~isConnecting
    /\ isConnecting' = TRUE
    /\ \E listens \in BOOLEAN : StartServerListen(TRUE, listens)
    /\ UNCHANGED <<client, connected, hasInitiallyConnected, isFirstConnection,
                   mqttSent, sensorVars, deviceVars>>
    /\ UNCHANGED <<healthVars, routeVars, connVars>>

\* client.on('connect'): the first one resolves connect(), later ones are
\* reconnections.  The handler does not ask whether disconnect() has ended
\* the client.
MqttOnConnect ==
    /\ ProcessAlive
    /\ client = "client"
    /\ ~connected
    /\ connected' = TRUE
    /\ IF isFirstConnection
       THEN /\ isConnecting' = FALSE
            /\ hasInitiallyConnected' = TRUE
            /\ isFirstConnection' = FALSE
       ELSE UNCHANGED <<isConnecting, hasInitiallyConnected, isFirstConnection>>
    /\ \E listens \in ListenOutcomes(isFirstConnection /\ server = "awaitMqtt") :
           StartServerListen(isFirstConnection /\ server = "awaitMqtt", listens)
    /\ UNCHANGED <<client, mqttSent, sensorVars, deviceVars>>
    /\ UNCHANGED <<healthVars, routeVars, connVars>>

\* client.on('error') while the client has no connection: before the first
\* connection it rejects connect().
MqttOnError ==
    /\ ProcessAlive
    /\ client = "client"
    /\ ~connected
    /\ isConnecting' = FALSE
    /\ \E listens \in ListenOutcomes(isFirstConnection /\ server = "awaitMqtt") :
           StartServerListen(isFirstConnection /\ server = "awaitMqtt", listens)
    /\ UNCHANGED <<client, connected, hasInitiallyConnected, isFirstConnection,
                   mqttSent, sensorVars, deviceVars>>
    /\ UNCHANGED <<healthVars, routeVars, connVars>>

\* The connection to the broker is lost, or closed by client.end(); the client
\* stays.
MqttOnClose ==
    /\ ProcessAlive
    /\ client = "client"
    /\ connected
    /\ connected' = FALSE
    /\ UNCHANGED <<client, isConnecting, hasInitiallyConnected, isFirstConnection,
                   server, mqttSent, sensorVars, deviceVars>>
    /\ UNCHANGED otherVars

\* MQTTService.publish: TRUE when it throws 'MQTT client not connected'.
PublishThrows == client = "null"

PublishAndRetry(sent, msg) == sent (+) SetToBag({msg}) (+) SetToBag({msg})

\* MQTTService.publish with a client: one client.publish(topic, message).
Publish(sent, msg) == sent (+) SetToBag({msg})

\* MQTTService.disconnect(): client.end() on the client, when there is one.
Disconnect(c, isEnded) == isEnded \/ c # "null"

\* SIGTERM or SIGINT arrives: the handler calls mqttService.disconnect() and
\* awaits AppDataSource.destroy(); until that settles the event loop goes on
\* serving requests.  A later signal runs the handler again.
Shutdown ==
    /\ ProcessAlive
    /\ proc = "running" \/ ended # Disconnect(client, ended)
    /\ proc' = "closing"
    /\ ended' = Disconnect(client, ended)
    /\ UNCHANGED <<sensorVars, deviceVars, mqttVars, healthVars, routeVars, connVars>>

\* AppDataSource.destroy() settles and the handler calls process.exit(0).
ProcessExit ==
    /\ proc = "closing"
    /\ proc' = "exited"
    /\ UNCHANGED <<ended, sensorVars, deviceVars, mqttVars, healthVars, routeVars,
                   connVars>>

ShutdownNext ==
    \/ Shutdown
    \/ ProcessExit

MqttNext ==
    \/ StartServerFails
    \/ StartServerConnect
    \/ StartServerConnectThrows
    \/ MqttOnConnect
    \/ MqttOnError
    \/ MqttOnClose

(***************************************************************************)
(* Device commands.                                                        *)
(***************************************************************************)
QUEUED == "queued"
PUBLISHED == "published"
ERROR == "error"

\* The request bodies of the model.
DevicePayloads ==
    { [device_id |-> "greenhouse-01", command |-> "ON"],
      [device_id |-> "greenhouse-02", command |-> "OFF"],
      [device_id |-> "", command |-> "TOGGLE"] }

\* The failure a write to device_commands can end with; neither the service
\* nor the controller reads more of it than its message.
DeviceDbErrors == {ErrConnTerminated}

NoCBody == [device_id |-> "", command |-> ""]

DeviceIssuesNone(body) == {}

\* deviceControlSchema: the fields of the body that raise a Zod issue.
DeviceIssues(body) ==
    (IF body.device_id = "" THEN {"device_id"} ELSE {})
    \cup (IF body.command \notin {"ON", "OFF"} THEN {"command"} ELSE {})

\* The entity; errorMessage is <<>> when null.
NoCRec ==
    [id |-> 0, deviceId |-> "", command |-> "", status |-> "", errorMessage |-> <<>>]

\* repository.create({deviceId, command, status: QUEUED}) with the id the
\* insert generates.
NewCommand(body, id) ==
    [id |-> id, deviceId |-> body.device_id, command |-> body.command,
     status |-> QUEUED, errorMessage |-> <<>>]

InsertCommandOncePerPair(rows, row) ==
    IF \E c \in rows : c.deviceId = row.deviceId /\ c.command = row.command
    THEN rows
    ELSE rows \cup {row}

InsertCommandLost(rows, row) == rows

\* repository.save(commandRecord) of a new entity: INSERT.
InsertCommand(rows, row) == rows \cup {row}

UpdateCommandByDevice(rows, rec) ==
    {IF c.deviceId = rec.deviceId
     THEN [c EXCEPT !.status = rec.status, !.errorMessage = rec.errorMessage]
     ELSE c : c \in rows}

\* repository.save(savedCommand) of a stored entity: UPDATE ... WHERE id.
UpdateCommand(rows, rec) ==
    {IF c.id = rec.id
     THEN [c EXCEPT !.status = rec.status, !.errorMessage = rec.errorMessage]
     ELSE c : c \in rows}

CaughtRecordMessageOnly(rec, msg) == [rec EXCEPT !.errorMessage = <<msg>>]

\* The catch block's assignments to savedCommand.
CaughtRecord(rec, msg) == [rec EXCEPT !.status = ERROR, !.errorMessage = <<msg>>]

CommandMessageAlwaysOn(body) ==
    [topic |-> <<"greenhouse", "control", body.device_id>>, command |-> "ON"]

\* The topic and JSON payload of a command (the payload's timestamp is the
\* wall clock and is left out).
CommandMessage(body) ==
    [topic |-> <<"greenhouse", "control", body.device_id>>, command |-> body.command]

NoCResp ==
    [status |-> 0, success |-> FALSE, error |-> "", message |-> "",
     bodyStatus |-> "", id |-> 0, details |-> {}]

\* DeviceController.sendControlCommand, the try branch.
DeviceSuccessResponse(rec) ==
    [status |-> 201, success |-> TRUE, error |-> "",
     message |-> "Command sent successfully", bodyStatus |-> rec.status,
     id |-> rec.id, details |-> {}]

\* DeviceController.sendControlCommand, the catch branch (error instanceof Error).
DeviceErrorResponse(msg) ==
    [status |-> 500, success |-> FALSE, error |-> "MQTT publish failed",
     message |-> msg, bodyStatus |-> "error", id |-> 0, details |-> {}]

\* validate(deviceControlSchema), the ZodError branch.
DeviceValidationResponse(issues) ==
    [status |-> 400, success |-> FALSE, error |-> "Validation failed",
     message |-> "", bodyStatus |-> "", id |-> 0, details |-> issues]

\* History of a request: the broker as its publish met it ("no_client",
\* "disconnected", "connected"), how the publish ended ("ok", "threw"), the
\* calls of mqttService.publish it made, whether its insert committed and with
\* which id, whether a status write of it failed, and the status writes of it
\* that committed.
NoCHist ==
    [broker |-> "", publish |-> "", publishCalls |-> 0, inserted |-> FALSE,
     insertFailed |-> FALSE, rowId |-> 0, dbError |-> FALSE, statusWrites |-> 0]

CDone(r) == cpc[r] = "done"

BrokerNow ==
    IF client = "null" THEN "no_client"
    ELSE IF connected THEN "connected" ELSE "disconnected"

\* POST /device-control arrives: validate, then the service up to the await
\* of the first save.
DeviceSubmit(r, body) ==
    /\ ProcessAlive
    /\ server = "listening"
    /\ cpc[r] = "idle"
    /\ cbody' = [cbody EXCEPT ![r] = body]
    /\ IF DeviceIssues(body) # {}
       THEN /\ cresp' = [cresp EXCEPT ![r] = DeviceValidationResponse(DeviceIssues(body))]
            /\ cpc' = [cpc EXCEPT ![r] = "done"]
       ELSE /\ cpc' = [cpc EXCEPT ![r] = "insert"]
            /\ UNCHANGED cresp
    /\ UNCHANGED <<commands, nextCommandId, crec, cerr, chist, sensorVars, mqttVars>>
    /\ UNCHANGED otherVars

\* The insert commits; the service publishes and awaits the status write:
\* "published" when publish returned, "error" when it threw.
DeviceInsertOk(r) ==
    /\ ProcessAlive
    /\ cpc[r] = "insert"
    /\ LET saved == NewCommand(cbody[r], nextCommandId)
       IN /\ commands' = InsertCommand(commands, saved)
          /\ nextCommandId' = nextCommandId + 1
          /\ IF PublishThrows
             THEN /\ crec' = [crec EXCEPT ![r] = CaughtRecord(saved, ErrNoClient)]
                  /\ cerr' = [cerr EXCEPT ![r] = ErrNoClient]
                  /\ cpc' = [cpc EXCEPT ![r] = "saveError"]
                  /\ UNCHANGED mqttSent
             ELSE /\ mqttSent' = Publish(mqttSent, CommandMessage(cbody[r]))
                  /\ crec' = [crec EXCEPT ![r] = [saved EXCEPT !.status = PUBLISHED]]
                  /\ cpc' = [cpc EXCEPT ![r] = "savePublished"]
                  /\ UNCHANGED cerr
          /\ chist' = [chist EXCEPT ![r].inserted = TRUE,
                                    ![r].rowId = saved.id,
                                    ![r].broker = BrokerNow,
                                    ![r].publishCalls = @ + 1,
                                    ![r].publish = IF PublishThrows THEN "threw" ELSE "ok"]
    /\ UNCHANGED <<cbody, cresp, server, client, connected, isConnecting,
                   hasInitiallyConnected, isFirstConnection, sensorVars>>
    /\ UNCHANGED otherVars

\* The insert fails: the service throws before its try block and the
\* controller answers.
DeviceInsertError(r, msg) ==
    /\ ProcessAlive
    /\ cpc[r] = "insert"
    /\ cresp' = [cresp EXCEPT ![r] = DeviceErrorResponse(msg)]
    /\ chist' = [chist EXCEPT ![r].insertFailed = TRUE]
    /\ cpc' = [cpc EXCEPT ![r] = "done"]
    /\ UNCHANGED <<commands, nextCommandId, cbody, crec, cerr, sensorVars, mqttVars>>
    /\ UNCHANGED otherVars

\* The write of "published" commits; the service returns the record.
DeviceSavePublishedOk(r) ==
    /\ ProcessAlive
    /\ cpc[r] = "savePublished"
    /\ commands' = UpdateCommand(commands, crec[r])
    /\ cresp' = [cresp EXCEPT ![r] = DeviceSuccessResponse(crec[r])]
    /\ chist' = [chist EXCEPT ![r].statusWrites = @ + 1]
    /\ cpc' = [cpc EXCEPT ![r] = "done"]
    /\ UNCHANGED <<nextCommandId, cbody, crec, cerr, sensorVars, mqttVars>>
    /\ UNCHANGED otherVars

\* The write of "published" fails inside the try block: the catch block marks
\* the record as error and awaits a second write.
DeviceSavePublishedError(r, msg) ==
    /\ ProcessAlive
    /\ cpc[r] = "savePublished"
    /\ crec' = [crec EXCEPT ![r] = CaughtRecord(crec[r], msg)]
    /\ cerr' = [cerr EXCEPT ![r] = msg]
    /\ chist' = [chist EXCEPT ![r].dbError = TRUE]
    /\ cpc' = [cpc EXCEPT ![r] = "saveError"]
    /\ UNCHANGED <<commands, nextCommandId, cbody, cresp, sensorVars, mqttVars>>
    /\ UNCHANGED otherVars

\* The write of "error" commits; the caught error is thrown again and the
\* controller answers.
DeviceSaveErrorOk(r) ==
    /\ ProcessAlive
    /\ cpc[r] = "saveError"
    /\ commands' = UpdateCommand(commands, crec[r])
    /\ cresp' = [cresp EXCEPT ![r] = DeviceErrorResponse(cerr[r])]
    /\ chist' = [chist EXCEPT ![r].statusWrites = @ + 1]
    /\ cpc' = [cpc EXCEPT ![r] = "done"]
    /\ UNCHANGED <<nextCommandId, cbody, crec, cerr, sensorVars, mqttVars>>
    /\ UNCHANGED otherVars

\* The write of "error" fails inside the catch block: its error leaves the
\* service and the controller answers.
DeviceSaveErrorError(r, msg) ==
    /\ ProcessAlive
    /\ cpc[r] = "saveError"
    /\ cresp' = [cresp EXCEPT ![r] = DeviceErrorResponse(msg)]
    /\ chist' = [chist EXCEPT ![r].dbError = TRUE]
    /\ cpc' = [cpc EXCEPT ![r] = "done"]
    /\ UNCHANGED <<commands, nextCommandId, cbody, crec, cerr, sensorVars, mqttVars>>
    /\ UNCHANGED otherVars

(***************************************************************************)
(* GET /health/status: HealthController.getStatus over                     *)
(* HealthService.performHealthCheck. checkMQTT() runs synchronously when   *)
(* the argument array of Promise.allSettled is built; the handler then     *)
(* awaits the answer to 'SELECT 1'.                                        *)
(***************************************************************************)
MaxHealthReq == 2

HReq == 1..MaxHealthReq

\* Date.now() - startTime for an answered query.
Latencies == {1, 12}

\* checkDatabase: the query was answered.
DbConnected(latency) ==
    [status |-> "connected", latency_ms |-> latency, error |-> ""]

\* checkDatabase: the catch block, for an Error with the given message.
DbDisconnected(msg) ==
    [status |-> "disconnected", latency_ms |-> 0, error |-> msg]

\* checkMQTT on the current MQTTService state (error "" is undefined).
CheckMQTT ==
    IF client = "null"
    THEN [status |-> "disconnected", error |-> "MQTT client not initialized"]
    ELSE IF connected
         THEN [status |-> "connected", error |-> ""]
         ELSE [status |-> "disconnected", error |-> "MQTT client disconnected"]

NoProbe == [status |-> "", error |-> ""]

PerformHealthCheckEither(dbHealth, mqttHealth) ==
    LET isHealthy == dbHealth.status = "connected" \/ mqttHealth.status = "connected"
    IN  [isHealthy |-> isHealthy,
         service |-> IF isHealthy THEN "ok" ELSE "degraded",
         db |-> dbHealth,
         mqtt |-> mqttHealth]

PerformHealthCheckAll(dbHealth, mqttHealth) ==
    LET failed == dbHealth.status # "connected"
        isHealthy == ~failed /\ mqttHealth.status = "connected"
    IN  [isHealthy |-> isHealthy,
         service |-> IF isHealthy THEN "ok" ELSE "degraded",
         db |-> dbHealth,
         mqtt |-> IF failed
                  THEN [status |-> "disconnected", error |-> "Health check failed"]
                  ELSE mqttHealth]

\* performHealthCheck from the two settled probe values (both promises
\* fulfil: checkDatabase catches every error, checkMQTT is already a value).
PerformHealthCheck(dbHealth, mqttHealth) ==
    LET isHealthy == dbHealth.status = "connected" /\ mqttHealth.status = "connected"
    IN  [isHealthy |-> isHealthy,
         service |-> IF isHealthy THEN "ok" ELSE "degraded",
         db |-> dbHealth,
         mqtt |-> mqttHealth]

NoHResp ==
    [status |-> 0, keys |-> {}, service |-> "", db |-> DbDisconnected(""),
     mqtt |-> NoProbe, error |-> "", message |-> ""]

HealthStatusResponseAlwaysOk(health) ==
    [status |-> 200,
     keys |-> {"service", "db", "mqtt"},
     service |-> health.service, db |-> health.db, mqtt |-> health.mqtt,
     error |-> "", message |-> ""]

\* getStatus, try block: the body has the keys service, db and mqtt.
HealthStatusResponse(health) ==
    [status |-> IF health.isHealthy THEN 200 ELSE 503,
     keys |-> {"service", "db", "mqtt"},
     service |-> health.service, db |-> health.db, mqtt |-> health.mqtt,
     error |-> "", message |-> ""]

\* getStatus, catch block.
HealthCatchResponse(msg) ==
    [status |-> 503,
     keys |-> {"service", "error", "message"},
     service |-> "degraded", db |-> DbDisconnected(""), mqtt |-> NoProbe,
     error |-> "Health check failed", message |-> msg]

NoHHist == [broker |-> "", db |-> "", latency |-> 0, dbError |-> ""]

HDone(h) == hpc[h] = "done"

\* GET /health/status arrives: performHealthCheck up to the await.
HealthStart(h) ==
    /\ ProcessAlive
    /\ server = "listening"
    /\ hpc[h] = "idle"
    /\ hmqtt' = [hmqtt EXCEPT ![h] = CheckMQTT]
    /\ hpc' = [hpc EXCEPT ![h] = "query"]
    /\ hhist' = [hhist EXCEPT ![h].broker = BrokerNow]
    /\ UNCHANGED <<hresp, sensorVars, deviceVars, mqttVars, routeVars, connVars>>
    /\ UNCHANGED shutdownVars

\* 'SELECT 1' is answered: the response is built and sent.
HealthDbOk(h, latency) ==
    /\ ProcessAlive
    /\ hpc[h] = "query"
    /\ hresp' = [hresp EXCEPT ![h] =
           HealthStatusResponse(PerformHealthCheck(DbConnected(latency), hmqtt[h]))]
    /\ hpc' = [hpc EXCEPT ![h] = "done"]
    /\ hhist' = [hhist EXCEPT ![h].db = "answered", ![h].latency = latency]
    /\ UNCHANGED <<hmqtt, sensorVars, deviceVars, mqttVars, routeVars, connVars>>
    /\ UNCHANGED shutdownVars

\* 'SELECT 1' rejects: checkDatabase catches, the response is built and sent.
HealthDbError(h, msg) ==
    /\ ProcessAlive
    /\ hpc[h] = "query"
    /\ hresp' = [hresp EXCEPT ![h] =
           HealthStatusResponse(PerformHealthCheck(DbDisconnected(msg), hmqtt[h]))]
    /\ hpc' = [hpc EXCEPT ![h] = "done"]
    /\ hhist' = [hhist EXCEPT ![h].db = "failed", ![h].dbError = msg]
    /\ UNCHANGED <<hmqtt, sensorVars, deviceVars, mqttVars, routeVars, connVars>>
    /\ UNCHANGED shutdownVars

\* The database never answers 'SELECT 1': the await has no timeout and no
\* race, so the handler has no further step.
HealthDbStall(h) ==
    /\ ProcessAlive
    /\ hpc[h] = "query"
    /\ hpc' = [hpc EXCEPT ![h] = "stalled"]
    /\ hhist' = [hhist EXCEPT ![h].db = "silent"]
    /\ UNCHANGED <<hmqtt, hresp, sensorVars, deviceVars, mqttVars, routeVars, connVars>>
    /\ UNCHANGED shutdownVars

\* The health endpoint while no signal arrives.
HealthServeNext ==
    \/ MqttNext
    \/ \E h \in HReq : HealthStart(h)
    \/ \E h \in HReq, latency \in Latencies : HealthDbOk(h, latency)
    \/ \E h \in HReq, msg \in DbErrors : HealthDbError(h, msg)
    \/ \E h \in HReq : HealthDbStall(h)

HealthNext ==
    \/ HealthServeNext
    \/ ShutdownNext

\* The sensor endpoint while no signal arrives: its handlers read nothing of
\* the MQTT service, and a database call that meets a closing data source
\* is one of the failures of SensorDbErrors.  ApiNext runs the endpoint with
\* the signal handlers.
SensorNext ==
    \/ MqttNext
    \/ \E r \in SReq, body \in SensorPayloads : SensorSubmit(r, body)
    \/ \E r \in SReq : SensorFindOk(r)
    \/ \E r \in SReq, msg \in SensorDbErrors : SensorDbError(r, msg)
    \/ \E r \in SReq : SensorSave(r)

DeviceNext ==
    \/ MqttNext
    \/ \E r \in CReq, body \in DevicePayloads : DeviceSubmit(r, body)
    \/ \E r \in CReq : DeviceInsertOk(r)
    \/ \E r \in CReq, msg \in DeviceDbErrors : DeviceInsertError(r, msg)
    \/ \E r \in CReq : DeviceSavePublishedOk(r)
    \/ \E r \in CReq, msg \in DeviceDbErrors : DeviceSavePublishedError(r, msg)
    \/ \E r \in CReq : DeviceSaveErrorOk(r)
    \/ \E r \in CReq, msg \in DeviceDbErrors : DeviceSaveErrorError(r, msg)
    \/ ShutdownNext

(***************************************************************************)
(* POST /api/mqtt/publish and POST /api/mqtt/subscribe: synchronous        *)
(* handlers over MQTTService.publish and MQTTService.subscribe.            *)
(***************************************************************************)
\* One request per endpoint of the application.
ApiReq == {1}

MaxMqttReq == 2

MReq == 1..MaxMqttReq

\* The request bodies of /publish; "" is a missing (falsy) field.
PublishPayloads ==
    { [topic |-> "greenhouse/test", message |-> "hello"],
      [topic |-> "", message |-> "hello"],
      [topic |-> "greenhouse/test", message |-> ""] }

\* The request bodies of /subscribe.
SubscribePayloads == { [topic |-> "greenhouse/test"], [topic |-> ""] }

NoMResp == [status |-> 0, success |-> FALSE, error |-> "", message |-> ""]

\* The message of /publish as handed to client.publish.
RouteMessage(body) == [topic |-> body.topic, message |-> body.message]

\* res.status(400).json({ success: false, error })
RouteBadRequest(error) ==
    [status |-> 400, success |-> FALSE, error |-> error, message |-> ""]

\* The catch block of both routes: error.message of the Error thrown.
RouteError(msg) ==
    [status |-> 500, success |-> FALSE, error |-> msg, message |-> ""]

\* res.json({ success: true, message })
RouteOk(message) ==
    [status |-> 200, success |-> TRUE, error |-> "", message |-> message]

MDone(m) == mresp[m] # NoMResp

\* POST /api/mqtt/publish, the whole handler.
MqttPublishRoute(m, body) ==
    /\ ProcessAlive
    /\ server = "listening"
    /\ ~MDone(m)
    /\ IF body.topic = "" \/ body.message = ""
       THEN /\ mresp' = [mresp EXCEPT ![m] = RouteBadRequest("Topic and message are required")]
            /\ UNCHANGED mqttSent
       ELSE IF PublishThrows
            THEN /\ mresp' = [mresp EXCEPT ![m] = RouteError(ErrNoClient)]
                 /\ UNCHANGED mqttSent
            ELSE /\ mqttSent' = Publish(mqttSent, RouteMessage(body))
                 /\ mresp' = [mresp EXCEPT ![m] = RouteOk("Message published to topic")]
    /\ UNCHANGED <<mqttSubs, subLog, subClient, server, client, connected, isConnecting,
                   hasInitiallyConnected, isFirstConnection,
                   sensorVars, deviceVars, healthVars, connVars>>
    /\ UNCHANGED shutdownVars

\* The client of a client.subscribe call: MQTTService.client (0) or the i-th
\* client that connect() has replaced since, and whether the call was made
\* before client.end().
SubscribedOn(on, live) == [on |-> on, live |-> live]

\* The client of the call can deliver an acknowledgement: the call was made
\* before client.end() and the connection of that client is open (after
\* end() it stays open until it is closed).
CanAcknowledge(sub) ==
    /\ sub.live
    /\ IF sub.on = 0 THEN connected ELSE orphans[sub.on].connected

\* POST /api/mqtt/subscribe, the whole handler.
MqttSubscribeRoute(m, body) ==
    /\ ProcessAlive
    /\ server = "listening"
    /\ ~MDone(m)
    /\ IF body.topic = ""
       THEN /\ mresp' = [mresp EXCEPT ![m] = RouteBadRequest("Topic is required")]
            /\ UNCHANGED <<mqttSubs, subLog, subClient>>
       ELSE IF client = "null"
            THEN /\ mresp' = [mresp EXCEPT ![m] = RouteError(ErrNoClient)]
                 /\ UNCHANGED <<mqttSubs, subLog, subClient>>
            ELSE /\ mqttSubs' = Append(mqttSubs, body.topic)
                 /\ subLog' = Append(subLog, "pending")
                 /\ subClient' = Append(subClient, SubscribedOn(0, ~ended))
                 /\ mresp' = [mresp EXCEPT ![m] = RouteOk("Subscribed to topic")]
    /\ UNCHANGED <<mqttVars, sensorVars, deviceVars, healthVars, connVars>>
    /\ UNCHANGED shutdownVars

\* The outcomes the callback of client.subscribe can be called with: granted,
\* or an error (the broker refuses the subscription, or the client is closed
\* or ended before the acknowledgement).
SubscribeOutcomes == {"granted", "failed"}

\* The callback of the i-th client.subscribe call runs: it writes one log
\* line and no response (the route has answered already).
SubscribeCallback(i, outcome) ==
    /\ ProcessAlive
    /\ i \in DOMAIN mqttSubs
    /\ subLog[i] = "pending"
    /\ outcome = "granted" => CanAcknowledge(subClient[i])
    /\ subLog' = [subLog EXCEPT ![i] = outcome]
    /\ UNCHANGED <<mresp, mqttSubs, subClient, mqttVars, sensorVars, deviceVars, healthVars, connVars>>
    /\ UNCHANGED shutdownVars

\* The /mqtt routes with the MQTT service.
RouteNext ==
    \/ MqttNext
    \/ \E m \in MReq, body \in PublishPayloads : MqttPublishRoute(m, body)
    \/ \E m \in MReq, body \in SubscribePayloads : MqttSubscribeRoute(m, body)
    \/ \E i \in MReq, outcome \in SubscribeOutcomes : SubscribeCallback(i, outcome)
    \/ ShutdownNext

\* app.use(express.json()) with no error-handling middleware: a body that
\* does not parse never reaches a router, and Express's default handler
\* answers 400 with an HTML page: no success key and no error key.
ParseErrorResponse == [status |-> 400, contentType |-> "text/html"]

\* POST /sensor-data with a body express.json() rejects.
SensorParseError(r) ==
    /\ ProcessAlive
    /\ server = "listening"
    /\ spc[r] = "idle"
    /\ sresp' = [sresp EXCEPT ![r] = ParseErrorResponse]
    /\ spc' = [spc EXCEPT ![r] = "done"]
    /\ UNCHANGED <<readings, nextReadingId, sbody, shist, deviceVars, mqttVars>>
    /\ UNCHANGED otherVars

\* POST /device-control with a body express.json() rejects.
DeviceParseError(r) ==
    /\ ProcessAlive
    /\ server = "listening"
    /\ cpc[r] = "idle"
    /\ cresp' = [cresp EXCEPT ![r] = ParseErrorResponse]
    /\ cpc' = [cpc EXCEPT ![r] = "done"]
    /\ UNCHANGED <<commands, nextCommandId, cbody, crec, cerr, chist, sensorVars,
                   mqttVars>>
    /\ UNCHANGED otherVars

\* POST /api/mqtt/publish or /subscribe with a body express.json() rejects.
RouteParseError(m) ==
    /\ ProcessAlive
    /\ server = "listening"
    /\ ~MDone(m)
    /\ mresp' = [mresp EXCEPT ![m] = ParseErrorResponse]
    /\ UNCHANGED <<mqttSubs, subLog, subClient, mqttVars, sensorVars, deviceVars,
                   healthVars, connVars, shutdownVars>>

\* The database failures of the run of all endpoints: one whose message the
\* sensor controller takes for a connection error, and one it does not.
ApiDbErrors == {ErrConnRefused, ErrHostNotFound}

\* Every endpoint of the application behind the body parser, with one
\* request each.
ApiNext ==
    \/ MqttNext
    \/ \E r \in ApiReq, body \in SensorPayloads : SensorSubmit(r, body)
    \/ \E r \in ApiReq : SensorFindOk(r)
    \/ \E r \in ApiReq, msg \in ApiDbErrors : SensorDbError(r, msg)
    \/ \E r \in ApiReq : SensorSave(r)
    \/ \E r \in ApiReq, body \in DevicePayloads : DeviceSubmit(r, body)
    \/ \E r \in ApiReq : DeviceInsertOk(r)
    \/ \E r \in ApiReq, msg \in DeviceDbErrors : DeviceInsertError(r, msg)
    \/ \E r \in ApiReq : DeviceSavePublishedOk(r)
    \/ \E r \in ApiReq, msg \in DeviceDbErrors : DeviceSavePublishedError(r, msg)
    \/ \E r \in ApiReq : DeviceSaveErrorOk(r)
    \/ \E r \in ApiReq, msg \in DeviceDbErrors : DeviceSaveErrorError(r, msg)
    \/ \E h \in ApiReq : HealthStart(h)
    \/ \E h \in ApiReq, latency \in Latencies : HealthDbOk(h, latency)
    \/ \E h \in ApiReq, msg \in ApiDbErrors : HealthDbError(h, msg)
    \/ \E h \in ApiReq : HealthDbStall(h)
    \/ \E m \in ApiReq, body \in PublishPayloads : MqttPublishRoute(m, body)
    \/ \E m \in ApiReq, body \in SubscribePayloads : MqttSubscribeRoute(m, body)
    \/ \E i \in ApiReq, outcome \in SubscribeOutcomes : SubscribeCallback(i, outcome)
    \/ \E r \in ApiReq : SensorParseError(r)
    \/ \E r \in ApiReq : DeviceParseError(r)
    \/ \E m \in ApiReq : RouteParseError(m)
    \/ ShutdownNext

(***************************************************************************)
(* MQTTService.connect() called again, by any caller, after startServer's  *)
(* call.  connect() ends no client, so a client that MQTTService.client    *)
(* no longer points to keeps its handlers, which go on writing the         *)
(* service's fields.                                                       *)
(***************************************************************************)
MaxConnectCalls == 3

NoConnCall == [broker |-> "", result |-> ""]

\* A client as the closure of its connect() call holds it.
OrphanOf(isConnected, first, isEnded) ==
    [connected |-> isConnected, first |-> first, ended |-> isEnded]

\* A polling promise of connect(): pending, or settled with what the tick
\* that settled it read.
Pending == [state |-> "pending", clientConnected |-> FALSE, everConnected |-> FALSE]

\* One tick of the setInterval callback: resolve when the client is
\* connected, reject when no attempt is in flight, otherwise keep polling.
PollSettle(isConnected, connecting, ever) ==
    IF client # "null" /\ isConnected
    THEN [state |-> "resolved", clientConnected |-> TRUE, everConnected |-> ever]
    ELSE IF ~connecting
         THEN [state |-> "rejected", clientConnected |-> FALSE, everConnected |-> ever]
         ELSE Pending

\* connect(), guards 1 and 2: the existing client is returned.
ConnectReuse ==
    /\ ProcessAlive
    /\ server # "starting"
    /\ connCalls < MaxConnectCalls
    /\ client # "null"
    /\ connected \/ hasInitiallyConnected
    /\ connCalls' = connCalls + 1
    /\ connLast' = [broker |-> BrokerNow, result |-> "reused"]
    /\ UNCHANGED <<orphans, waiters, mqttVars, sensorVars, deviceVars, healthVars, routeVars>>
    /\ UNCHANGED shutdownVars

\* connect(), guard 3: a promise that polls for the attempt in flight.
ConnectWait ==
    /\ ProcessAlive
    /\ server # "starting"
    /\ connCalls < MaxConnectCalls
    /\ ~(client # "null" /\ (connected \/ hasInitiallyConnected))
    /\ isConnecting
    /\ connCalls' = connCalls + 1
    /\ connLast' = [broker |-> BrokerNow, result |-> "waiting"]
    /\ waiters' = Append(waiters, Pending)
    /\ UNCHANGED <<orphans, mqttVars, sensorVars, deviceVars, healthVars, routeVars>>
    /\ UNCHANGED shutdownVars

\* connect(), no guard taken: mqtt.connect creates a client and this.client
\* is overwritten; connect() does not end the client it pointed to.
ConnectOpen ==
    /\ ProcessAlive
    /\ server # "starting"
    /\ connCalls < MaxConnectCalls
    /\ ~(client # "null" /\ (connected \/ hasInitiallyConnected))
    /\ ~isConnecting
    /\ connCalls' = connCalls + 1
    /\ connLast' = [broker |-> BrokerNow, result |-> "opened"]
    /\ orphans' = IF client = "null" THEN orphans
                  ELSE Append(orphans, OrphanOf(connected, isFirstConnection, ended))
    /\ isConnecting' = TRUE
    /\ client' = "client"
    /\ connected' = FALSE
    /\ isFirstConnection' = TRUE
    /\ ended' = FALSE
    /\ subClient' = [k \in DOMAIN subClient |->
                         IF subClient[k].on = 0
                         THEN SubscribedOn(Len(orphans) + 1, subClient[k].live)
                         ELSE subClient[k]]
    /\ UNCHANGED <<waiters, server, hasInitiallyConnected, mqttSent, proc,
                   sensorVars, deviceVars, healthVars, mresp, mqttSubs, subLog>>

\* 'connect' on a client that was overwritten.
OrphanOnConnect(i) ==
    /\ ProcessAlive
    /\ i \in DOMAIN orphans
    /\ ~orphans[i].connected
    /\ orphans' = [orphans EXCEPT ![i] = OrphanOf(TRUE, FALSE, orphans[i].ended)]
    /\ IF orphans[i].first
       THEN /\ isConnecting' = FALSE
            /\ hasInitiallyConnected' = TRUE
       ELSE UNCHANGED <<isConnecting, hasInitiallyConnected>>
    /\ UNCHANGED <<connCalls, connLast, waiters, server, client, connected,
                   isFirstConnection, mqttSent, sensorVars, deviceVars, healthVars,
                   routeVars>>
    /\ UNCHANGED shutdownVars

\* 'error' on a client that was overwritten.
OrphanOnError(i) ==
    /\ ProcessAlive
    /\ i \in DOMAIN orphans
    /\ ~orphans[i].connected
    /\ isConnecting' = FALSE
    /\ UNCHANGED <<connVars, server, client, connected, hasInitiallyConnected,
                   isFirstConnection, mqttSent, sensorVars, deviceVars,
                   healthVars, routeVars>>
    /\ UNCHANGED shutdownVars

\* A client that was overwritten loses its connection.
OrphanOnClose(i) ==
    /\ ProcessAlive
    /\ i \in DOMAIN orphans
    /\ orphans[i].connected
    /\ orphans' = [orphans EXCEPT ![i] = OrphanOf(FALSE, orphans[i].first, orphans[i].ended)]
    /\ UNCHANGED <<connCalls, connLast, waiters, mqttVars, sensorVars, deviceVars,
                   healthVars, routeVars>>
    /\ UNCHANGED shutdownVars

\* The interval of a pending polling promise fires and settles it.
PollTick(i) ==
    /\ ProcessAlive
    /\ i \in DOMAIN waiters
    /\ waiters[i] = Pending
    /\ PollSettle(connected, isConnecting, hasInitiallyConnected) # Pending
    /\ waiters' = [waiters EXCEPT ![i] =
                       PollSettle(connected, isConnecting, hasInitiallyConnected)]
    /\ UNCHANGED <<connCalls, connLast, orphans, mqttVars, sensorVars, deviceVars,
                   healthVars, routeVars>>
    /\ UNCHANGED shutdownVars

ConnectNext ==
    \/ MqttNext
    \/ \E i \in 1..MaxConnectCalls : PollTick(i)
    \/ ConnectReuse
    \/ ConnectWait
    \/ ConnectOpen
    \/ \E i \in 1..MaxConnectCalls : OrphanOnConnect(i)
    \/ \E i \in 1..MaxConnectCalls : OrphanOnError(i)
    \/ \E i \in 1..MaxConnectCalls : OrphanOnClose(i)
    \/ ShutdownNext

(***************************************************************************)
(* Initial state: empty tables, no request in flight, MQTTService as       *)
(* constructed, startServer before its connect.                            *)
(***************************************************************************)
Init ==
    /\ readings = {}
    /\ nextReadingId = 1
    /\ spc = [r \in SReq |-> "idle"]
    /\ sbody = [r \in SReq |-> NoBody]
    /\ sresp = [r \in SReq |-> NoSResp]
    /\ shist = [r \in SReq |-> NoSHist]
    /\ commands = {}
    /\ nextCommandId = 1
    /\ cpc = [r \in CReq |-> "idle"]
    /\ cbody = [r \in CReq |-> NoCBody]
    /\ crec = [r \in CReq |-> NoCRec]
    /\ cerr = [r \in CReq |-> NoError]
    /\ cresp = [r \in CReq |-> NoCResp]
    /\ chist = [r \in CReq |-> NoCHist]
    /\ server = "starting"
    /\ client = "null"
    /\ connected = FALSE
    /\ isConnecting = FALSE
    /\ hasInitiallyConnected = FALSE
    /\ isFirstConnection = FALSE
    /\ mqttSent = EmptyBag
    /\ hpc = [h \in HReq |-> "idle"]
    /\ hmqtt = [h \in HReq |-> NoProbe]
    /\ hresp = [h \in HReq |-> NoHResp]
    /\ hhist = [h \in HReq |-> NoHHist]
    /\ mresp = [m \in MReq |-> NoMResp]
    /\ mqttSubs = <<>>
    /\ subLog = <<>>
    /\ subClient = <<>>
    /\ connCalls = 0
    /\ connLast = NoConnCall
    /\ orphans = <<>>
    /\ waiters = <<>>
    /\ proc = "running"
    /\ ended = FALSE

SensorSpec == Init /\ [][SensorNext]_vars

DeviceSpec == Init /\ [][DeviceNext]_vars

HealthSpec == Init /\ [][HealthNext]_vars

ApiSpec == Init /\ [][ApiNext]_vars

RouteSpec == Init /\ [][RouteNext]_vars

ConnectSpec == Init /\ [][ConnectNext]_vars

\* The outcome of a pending probe query: an answer, an error, or silence.
HealthDbOutcome(h) ==
    \/ \E latency \in Latencies : HealthDbOk(h, latency)
    \/ \E msg \in DbErrors : HealthDbError(h, msg)
    \/ HealthDbStall(h)

\* The event loop runs every continuation that is ready: a pending query
\* gets its outcome, and the handler's continuation runs with it.
HealthFairSpec ==
    /\ Init
    /\ [][HealthServeNext]_vars
    /\ \A h \in HReq : WF_vars(HealthDbOutcome(h))

Next == SensorNext \/ DeviceNext \/ HealthNext \/ ApiNext \/ ConnectNext \/ RouteNext

Spec == Init /\ [][Next]_vars

(***************************************************************************)
(* Claims about sensor ingestion, checked under SensorSpec.                *)
(***************************************************************************)
SamePair(a, b) ==
    /\ sbody[a].device_id = sbody[b].device_id
    /\ DateParse(sbody[a].timestamp) = DateParse(sbody[b].timestamp)

SameSubmission(a, b) ==
    /\ sbody[a].device_id = sbody[b].device_id
    /\ sbody[a].timestamp = sbody[b].timestamp

RowsOfPair(r) ==
    {x \in readings : /\ x.deviceId = sbody[r].device_id
                      /\ x.timestamp = DateParse(sbody[r].timestamp)}

\* C1: when a submission answered 201 is followed, after its answer, by a
\* submission with the same (device_id, timestamp) that the database serves,
\* the second is answered 200 with the id of the first, and exactly one row
\* holds that pair.
C1_SequentialIdempotent ==
    \A a \in SReq, b \in SReq :
        ( /\ SDone(b)
          /\ a \in shist[b].doneBefore
          /\ SameSubmission(a, b)
          /\ SensorIssues(sbody[b]) = {}
          /\ sresp[a].status = 201
          /\ shist[b].error \notin DbErrors )
        => /\ sresp[b].status = 200
           /\ sresp[b].success
           /\ sresp[b].id = sresp[a].id
           /\ Cardinality(RowsOfPair(b)) = 1

C1_Witness ==
    \E a \in SReq, b \in SReq :
        /\ SDone(b) /\ a \in shist[b].doneBefore /\ SameSubmission(a, b)
        /\ sresp[a].status = 201 /\ sresp[b].status = 200
        /\ sresp[b].id = sresp[a].id

\* C2: no two stored readings share the same (deviceId, timestamp) pair.
C2_UniquePair ==
    \A x \in readings, y \in readings :
        (x.deviceId = y.deviceId /\ x.timestamp = y.timestamp) => x = y

\* Two submissions of one pair both passed the existence check and both
\* attempted the insert.
C2_Witness ==
    \E a \in SReq, b \in SReq :
        /\ a # b /\ SamePair(a, b) /\ SDone(a) /\ SDone(b)
        /\ sresp[a].status = 201
        /\ ~shist[b].stored /\ shist[b].storedAtSave

\* C3: a submission whose insert the uniqueness constraint rejects is
\* answered with the existing record (200, the stored row's id), not an error.
C3_ViolationReturnsExisting ==
    \A r \in SReq :
        (SDone(r) /\ shist[r].violation)
        => /\ sresp[r].status = 200
           /\ \E x \in RowsOfPair(r) : sresp[r].id = x.id /\ sresp[r].data = x

\* C4: the row a submission created keeps the values of that submission,
\* whatever is submitted for its pair afterwards, and a submission answered
\* 200 is given that row as first written.
C4_FirstWriteWins ==
    /\ \A w \in SReq :
          sresp[w].status = 201
          => NewReading(sbody[w], sresp[w].id) \in readings
    /\ \A r \in SReq :
          sresp[r].status = 200
          => \E w \in SReq \ {r} :
                /\ sresp[w].status = 201
                /\ SamePair(w, r)
                /\ sresp[r].id = sresp[w].id
                /\ sresp[r].data = NewReading(sbody[w], sresp[w].id)
                /\ sresp[r].data \in readings

\* A duplicate submission carrying other values than the stored row.
C4_Witness ==
    \E r \in SReq, w \in SReq :
        /\ sresp[r].status = 200 /\ sresp[w].status = 201 /\ SamePair(w, r)
        /\ sbody[r].temperature # sbody[w].temperature
        /\ sbody[r].humidity # sbody[w].humidity
        /\ sbody[r].battery # sbody[w].battery

\* C5: a valid submission that the database serves and whose pair is stored
\* neither when it is looked up nor when it is inserted is answered 201 and
\* its row is stored, whatever other pairs are stored or in flight.
C5_DistinctPairCreates ==
    \A r \in SReq :
        ( /\ SDone(r)
          /\ SensorIssues(sbody[r]) = {}
          /\ shist[r].error \notin DbErrors
          /\ ~shist[r].stored
          /\ ~shist[r].storedAtSave )
        => /\ sresp[r].status = 201
           /\ NewReading(sbody[r], sresp[r].id) \in readings

\* A row is created next to a stored row of the same device with another
\* timestamp, or of another device with the same timestamp.
C5_Witness ==
    \E r \in SReq, q \in SReq :
        /\ sresp[r].status = 201 /\ sresp[q].status = 201
        /\ q \in shist[r].doneBefore
        /\ \/ /\ sbody[r].device_id = sbody[q].device_id
              /\ DateParse(sbody[r].timestamp) # DateParse(sbody[q].timestamp)
           \/ /\ sbody[r].device_id # sbody[q].device_id
              /\ DateParse(sbody[r].timestamp) = DateParse(sbody[q].timestamp)

(***************************************************************************)
(* Claims about device commands, checked under DeviceSpec.                 *)
(***************************************************************************)
RowOf(r) == {c \in commands : c.id = chist[r].rowId}

\* C6: in every step, a stored command row either keeps its status or goes
\* from queued to published or from queued to error; no row disappears.
C6_StatusForwardOnly ==
    [][\A c \in commands :
         \E d \in commands' :
            /\ d.id = c.id
            /\ \/ d.status = c.status
               \/ c.status = QUEUED /\ d.status \in {PUBLISHED, ERROR}]_vars

\* Rows have reached published and error, one of them on the catch path
\* taken after a publish that returned, while another row of the same device
\* is stored.
C6_Witness ==
    \E a \in CReq, b \in CReq :
        /\ a # b /\ CDone(a) /\ CDone(b)
        /\ cbody[a].device_id = cbody[b].device_id
        /\ \E c \in RowOf(a) : c.status = PUBLISHED
        /\ \E c \in RowOf(b) : c.status = ERROR
        /\ chist[b].publish = "ok"

\* C7: a call that inserted its row and has completed, by returning or by
\* throwing, leaves that row at published or error.
C7_CompletedIsTerminal ==
    \A r \in CReq :
        (CDone(r) /\ chist[r].inserted)
        => \E c \in RowOf(r) : c.status \in {PUBLISHED, ERROR}

\* C8: a request whose publish met no client, or a client that is not
\* connected, and whose status writes the database served, is answered 500
\* with status "error" and its row is error with a non-empty errorMessage.
C8_UnreachableBrokerIsError ==
    \A r \in CReq :
        ( /\ CDone(r)
          /\ chist[r].broker \in {"no_client", "disconnected"}
          /\ ~chist[r].dbError )
        => /\ cresp[r].status = 500
           /\ cresp[r].bodyStatus = "error"
           /\ \E c \in RowOf(r) :
                 /\ c.status = ERROR
                 /\ c.errorMessage # <<>>
                 /\ c.errorMessage # <<"">>

\* C9: a call whose publish threw and that has completed has its row at error
\* with the thrown error's message, and the controller answered 500 without a
\* command record.
C9_PublishErrorRecorded ==
    \A r \in CReq :
        (CDone(r) /\ chist[r].publish = "threw")
        => /\ \E c \in RowOf(r) :
                 c.status = ERROR /\ c.errorMessage = <<ErrNoClient>>
           /\ cresp[r].status = 500
           /\ cresp[r].id = 0

\* C10: stored command rows have pairwise distinct ids, the calls whose
\* insert committed own pairwise distinct rows, and there are exactly as
\* many rows as such calls.
C10_NotIdempotent ==
    /\ \A c \in commands, d \in commands : c.id = d.id => c = d
    /\ \A a \in CReq, b \in CReq :
          (a # b /\ chist[a].inserted /\ chist[b].inserted)
          => /\ chist[a].rowId # chist[b].rowId
             /\ RowOf(a) # {} /\ RowOf(b) # {}
    /\ Cardinality(commands) = Cardinality({r \in CReq : chist[r].inserted})

\* Two calls with the same device_id and command, in flight together, have
\* both inserted.
C10_Witness ==
    \E a \in CReq, b \in CReq :
        /\ a # b /\ cbody[a] = cbody[b]
        /\ chist[a].inserted /\ chist[b].inserted
        /\ ~CDone(a) /\ ~CDone(b)
        /\ Cardinality(commands) = 2

\* C11: a call invokes mqttService.publish at most once, and the broker
\* client is handed exactly one message per call whose publish returned: a
\* publish that threw, or a status write that failed afterwards, is followed
\* by no further publish.
C11_NoRetry ==
    /\ \A r \in CReq : chist[r].publishCalls <= 1
    /\ BagCardinality(mqttSent) = Cardinality({r \in CReq : chist[r].publish = "ok"})

\* A call whose status write failed after its publish returned has completed
\* with a 500, and the broker client holds that one message only.
C11_Witness ==
    \E r \in CReq :
        /\ CDone(r) /\ chist[r].publish = "ok" /\ chist[r].dbError
        /\ cresp[r].status = 500
        /\ BagCardinality(mqttSent) = 1

\* C12: for every combination of probe outcomes, a health check reports
\* service "ok" exactly when the database answered the probe query and the
\* broker client was connected when probed, and "degraded" otherwise.
C12_OverallOkIffBoth ==
    \A h \in HReq :
        HDone(h) =>
            /\ hresp[h].service \in {"ok", "degraded"}
            /\ hresp[h].service = "ok"
                   <=> (hhist[h].db = "answered" /\ hhist[h].broker = "connected")

\* One check met both probes connected and completed, another met an
\* answering database with a disconnected broker client and completed.
C12_Witness ==
    \E a \in HReq, b \in HReq :
        /\ HDone(a) /\ hhist[a].db = "answered" /\ hhist[a].broker = "connected"
        /\ HDone(b) /\ hhist[b].db = "answered" /\ hhist[b].broker = "disconnected"

\* C13: GET /health/status answers 200 exactly when the overall status is ok
\* and 503 otherwise: a failed database probe gives 503 with the broker
\* connected, a failed broker probe gives 503 with the database answering,
\* and the handler's catch block answers 503.
C13_HealthHttpStatus ==
    /\ \A h \in HReq :
           HDone(h) =>
               /\ hresp[h].status = 200 <=> hresp[h].service = "ok"
               /\ hresp[h].status # 200 => hresp[h].status = 503
               /\ hhist[h].db = "failed" => hresp[h].status = 503
               /\ hhist[h].broker # "connected" => hresp[h].status = 503
    /\ \A msg \in DbErrors : HealthCatchResponse(msg).status = 503

\* A check whose database probe failed while the broker client was connected
\* has been answered, and so has one that met both probes connected.
C13_Witness ==
    \E a \in HReq, b \in HReq :
        /\ HDone(a) /\ hhist[a].db = "failed" /\ hhist[a].broker = "connected"
        /\ HDone(b) /\ hhist[b].db = "answered" /\ hhist[b].broker = "connected"

\* C14: the probes are independent: the response reports the broker probe's
\* result whatever the database probe met (answer or error), and the
\* database probe's result whatever state the broker client was in.
C14_ProbesIndependent ==
    \A h \in HReq :
        HDone(h) =>
            /\ hresp[h].mqtt.status = "connected" <=> hhist[h].broker = "connected"
            /\ hhist[h].broker = "no_client"
                   => hresp[h].mqtt.error = "MQTT client not initialized"
            /\ hhist[h].broker = "disconnected"
                   => hresp[h].mqtt.error = "MQTT client disconnected"
            /\ hresp[h].db.status = "connected" <=> hhist[h].db = "answered"
            /\ hhist[h].db = "answered" => hresp[h].db.latency_ms = hhist[h].latency
            /\ hhist[h].db = "failed" => hresp[h].db.error = hhist[h].dbError

\* A check whose database probe failed reported the broker as connected, and
\* a check whose broker probe found the client disconnected reported the
\* database's answer.
C14_Witness ==
    \E a \in HReq, b \in HReq :
        /\ HDone(a) /\ hhist[a].db = "failed" /\ hresp[a].mqtt.status = "connected"
        /\ HDone(b) /\ hhist[b].broker = "disconnected"
        /\ hresp[b].db.status = "connected"

\* C20: a health check whose probe query the database never answers is
\* still answered eventually.
C20_HealthCompletes ==
    \A h \in HReq : (hpc[h] = "stalled") ~> HDone(h)

\* C16: a sensor payload whose timestamp does not parse is answered 400
\* with a details entry for field "timestamp"; one with humidity below 0 is
\* answered 400; one with a non-empty device_id, a parseable timestamp and
\* humidity >= 0 (battery present or not) passes validation and reaches the
\* service.
C16_SensorValidationBoundary ==
    \A r \in SReq :
        LET body == sbody[r]
            wellFormed == /\ body.device_id # ""
                          /\ DateParse(body.timestamp) # NaN
                          /\ body.humidity >= 0
        IN  /\ spc[r] \in {"find", "save"} => wellFormed
            /\ SDone(r) =>
                  /\ DateParse(body.timestamp) = NaN
                        => sresp[r].status = 400 /\ "timestamp" \in sresp[r].details
                  /\ body.humidity < 0 => sresp[r].status = 400
                  /\ wellFormed => sresp[r].status # 400

\* "not-a-date" was answered 400 and a payload with humidity 0 and no
\* battery was stored.
C16_Witness ==
    \E a \in SReq, b \in SReq :
        /\ SDone(a) /\ sbody[a].timestamp = "not-a-date" /\ sresp[a].status = 400
        /\ SDone(b) /\ sbody[b].humidity = 0 /\ sbody[b].battery = <<>>
        /\ sresp[b].status = 201

\* The messages the driver gives when the database server cannot be reached:
\* refused connection, dropped connection, host name that does not resolve.
Unreachable(msg) == msg \in {ErrConnRefused, ErrConnTerminated, ErrHostNotFound}

\* C17: on sensor submission invalid input is answered 400, a database that
\* cannot be reached is answered 503 and never 400 or 500, and any other
\* failure is answered 500 and never 503.
C17_FailureKindsDistinct ==
    \A r \in SReq :
        SDone(r) =>
            /\ SensorIssues(sbody[r]) # {} <=> sresp[r].status = 400
            /\ Unreachable(shist[r].error) => sresp[r].status = 503
            /\ (shist[r].error # NoError /\ ~Unreachable(shist[r].error))
                   => sresp[r].status = 500
            /\ sresp[r].status = 503 => Unreachable(shist[r].error)

\* A sensor body that breaks createSensorDataSchema.
SensorInvalid(body) ==
    \/ body.device_id = ""
    \/ DateParse(body.timestamp) = NaN
    \/ body.humidity < 0

\* A command body that breaks deviceControlSchema.
DeviceInvalid(body) == body.device_id = "" \/ body.command \notin {"ON", "OFF"}

\* C15: a sensor-data or device-control request whose body fails schema
\* validation is answered 400 in the step that receives it, before any
\* service step: no lookup, no insert and no publish belongs to it, and the
\* tables and the messages handed to the broker client are unchanged.
C15_InvalidRejectedFirst ==
    [][ /\ \A r \in SReq :
              (spc[r] = "idle" /\ spc'[r] # "idle" /\ SensorInvalid(sbody'[r]))
                  => /\ spc'[r] = "done"
                     /\ sresp'[r].status = 400
                     /\ shist'[r] = NoSHist
                     /\ readings' = readings /\ commands' = commands
                     /\ mqttSent' = mqttSent
        /\ \A r \in CReq :
              (cpc[r] = "idle" /\ cpc'[r] # "idle" /\ DeviceInvalid(cbody'[r]))
                  => /\ cpc'[r] = "done"
                     /\ cresp'[r].status = 400
                     /\ chist'[r] = NoCHist
                     /\ readings' = readings /\ commands' = commands
                     /\ mqttSent' = mqttSent ]_vars

\* An invalid sensor payload and an invalid command payload have both been
\* answered 400 with nothing stored and nothing published.
C15_Witness ==
    \E r \in SReq, c \in CReq :
        /\ SDone(r) /\ SensorInvalid(sbody[r]) /\ sresp[r].status = 400
        /\ CDone(c) /\ DeviceInvalid(cbody[c]) /\ cresp[c].status = 400
        /\ readings = {} /\ commands = {} /\ mqttSent = EmptyBag

\* A response body carries success:false and a non-empty error string.
CarriesError(resp) ==
    /\ "success" \in DOMAIN resp /\ ~resp.success
    /\ "error" \in DOMAIN resp /\ resp.error # ""

\* C18: every response with a 4xx or 5xx status, of sensor-data,
\* device-control, the /mqtt routes and health (the health 503 and the
\* answers to malformed input included), carries success:false and an error
\* code string.
C18_AllErrorsCarrySuccessFalse ==
    /\ \A r \in SReq : sresp[r].status >= 400 => CarriesError(sresp[r])
    /\ \A r \in CReq : cresp[r].status >= 400 => CarriesError(cresp[r])
    /\ \A m \in MReq : mresp[m].status >= 400 => CarriesError(mresp[m])
    /\ \A h \in HReq :
           hresp[h].status >= 400
               => ("success" \in hresp[h].keys /\ "error" \in hresp[h].keys)

\* C19: mqtt.connect is never invoked while a client created earlier is
\* connected, connecting or reconnecting (every client that was not ended is),
\* and a connect() call that meets a connected client returns that client.
C19_SingleConnection ==
    /\ \A i \in DOMAIN orphans : orphans[i].ended
    /\ connLast.broker = "connected" => connLast.result = "reused"

\* C21: POST /mqtt/subscribe answers 400 for a missing topic without calling
\* the gateway, 500 when the subscribe fails, and 200 only when the
\* subscription succeeded: no request is answered 200 for a topic whose
\* subscription the broker client reports as failed.
C21_SubscribeOkOnlyWhenSubscribed ==
    /\ \A i \in DOMAIN mqttSubs : mqttSubs[i] # ""
    /\ (\E m \in MReq : mresp[m] = RouteOk("Subscribed to topic"))
           => \A i \in DOMAIN subLog : subLog[i] # "failed"

\* C22: a command row appears with status queued, a call writes the status
\* of its row at most once, a call that has completed after inserting has
\* written it exactly once, to published or error, and no row disappears.
C22_StatusWrittenOnce ==
    [][ /\ \A d \in commands' :
              (\A c \in commands : c.id # d.id) => d.status = QUEUED
        /\ \A c \in commands : \E d \in commands' : d.id = c.id
        /\ \A r \in CReq :
              /\ chist'[r].statusWrites <= 1
              /\ (cpc'[r] = "done" /\ chist'[r].inserted)
                     => /\ chist'[r].statusWrites = 1
                        /\ \E d \in commands' :
                              /\ d.id = chist'[r].rowId
                              /\ d.status \in {PUBLISHED, ERROR} ]_vars

\* C23: in every reachable state a stored command row with a non-null
\* errorMessage has status error; queued and published rows have none.
C23_ErrorMessageOnlyOnError ==
    \A c \in commands :
        /\ c.errorMessage # <<>> => c.status = ERROR
        /\ c.status \in {QUEUED, PUBLISHED} => c.errorMessage = <<>>

\* A row at error with its message, written by the catch block after a
\* publish that returned, is stored next to a published row.
C23_Witness ==
    \E a \in CReq, b \in CReq :
        /\ chist[a].publish = "ok" /\ chist[a].dbError
        /\ \E c \in RowOf(a) : c.status = ERROR /\ c.errorMessage # <<>>
        /\ \E c \in RowOf(b) : c.status = PUBLISHED /\ c.errorMessage = <<>>

\* C24: the steps of sendControlCommand are ordered: when a call issues its
\* publish its row is stored with status queued, and a row goes from queued
\* to published only for a call whose publish has already returned without
\* error.
C24_StepsOrdered ==
    [][ /\ \A r \in CReq :
              chist'[r].publishCalls > chist[r].publishCalls
                  => \E d \in commands' :
                        d.id = chist'[r].rowId /\ d.status = QUEUED
        /\ \A c \in commands, d \in commands' :
              (d.id = c.id /\ c.status = QUEUED /\ d.status = PUBLISHED)
                  => \E r \in CReq :
                        /\ chist[r].rowId = c.id
                        /\ chist[r].inserted
                        /\ chist[r].publish = "ok" ]_vars

\* A call has gone through the three steps: its row is published and its
\* message was handed to the broker client.
C24_Witness ==
    \E r \in CReq :
        /\ CDone(r) /\ chist[r].publish = "ok" /\ cresp[r].status = 201
        /\ \E c \in RowOf(r) : c.status = PUBLISHED
        /\ BagIn(CommandMessage(cbody[r]), mqttSent)

\* C25: the stored sensor readings only grow: every step keeps each stored
\* reading as it is, adds at most one, and the readings stored are exactly
\* one per call answered 201, so no call inserts twice.
C25_ReadingsOnlyGrow ==
    [][ /\ readings \subseteq readings'
        /\ Cardinality(readings' \ readings) <= 1
        /\ Cardinality(readings') =
               Cardinality({r \in SReq : sresp'[r].status = 201}) ]_vars

\* Two calls have each inserted: two readings of the same device with
\* different timestamps are stored.
C25_Witness ==
    /\ \E x \in readings, y \in readings :
           x.deviceId = y.deviceId /\ x.timestamp # y.timestamp
    /\ \A r \in SReq : SDone(r) /\ sresp[r].status = 201

\* An event of the broker clients: the only steps that change what a polling
\* promise reads.
ClientEvent ==
    \/ MqttOnConnect
    \/ MqttOnError
    \/ MqttOnClose
    \/ \E j \in 1..MaxConnectCalls : OrphanOnConnect(j)
    \/ \E j \in 1..MaxConnectCalls : OrphanOnError(j)
    \/ \E j \in 1..MaxConnectCalls : OrphanOnClose(j)

\* C26: a connect() call made while an attempt is in flight settles: while
\* it is pending and no signal has arrived, its next tick or a client event
\* can still occur; it is resolved only with a connected client, and it is
\* rejected only when the attempt has not connected.
C26_WaiterSettles ==
    \A i \in DOMAIN waiters :
        /\ (waiters[i] = Pending /\ proc = "running")
               => ENABLED (PollTick(i) \/ ClientEvent)
        /\ waiters[i].state = "resolved" => waiters[i].clientConnected
        /\ waiters[i].state = "rejected" => ~waiters[i].everConnected

\* C27: a command row is stored with status error only if the publish call
\* of its command threw; after a publish that returned, the row is never
\* recorded as error.
C27_ErrorOnlyIfPublishFailed ==
    \A r \in CReq :
        (\E c \in RowOf(r) : c.status = ERROR) => chist[r].publish = "threw"

\* C28: the status a device-control response reports is the stored status of
\* the row the call created: 201 with status "published" has its row at
\* published, 500 with status "error" has a stored row at error.
C28_ResponseMatchesRow ==
    \A r \in CReq :
        CDone(r) =>
            /\ (cresp[r].status = 201 /\ cresp[r].bodyStatus = PUBLISHED)
                   => \E c \in RowOf(r) : c.status = PUBLISHED
            /\ (cresp[r].status = 500 /\ cresp[r].bodyStatus = "error")
                   => \E c \in RowOf(r) : c.status = ERROR

\* The stored rows a published message belongs to: the rows of the device the
\* topic addresses that hold the command of the payload.
RowsOfMessage(m) ==
    {c \in commands : /\ m.topic = <<"greenhouse", "control", c.deviceId>>
                      /\ m.command = c.command}

\* C29: a call whose insert failed has ended with 500, has published nothing
\* and has no row; and the broker was handed no more copies of a message than
\* there are stored rows of that device and command.
C29_PublishOnlyWithRow ==
    /\ \A r \in CReq :
           chist[r].insertFailed =>
               /\ CDone(r) /\ cresp[r].status = 500
               /\ chist[r].publishCalls = 0
               /\ ~chist[r].inserted /\ RowOf(r) = {}
    /\ \A m \in BagToSet(mqttSent) :
           CopiesIn(m, mqttSent) <= Cardinality(RowsOfMessage(m))
    /\ BagCardinality(mqttSent) <= Cardinality(commands)

\* One call lost its insert, another call's insert committed and its message
\* was handed to the broker.
C29_Witness ==
    \E r \in CReq, q \in CReq :
        /\ chist[r].insertFailed /\ CDone(r)
        /\ chist[q].inserted /\ chist[q].publish = "ok"
        /\ BagCardinality(mqttSent) = 1
        /\ Cardinality(commands) = 1

\* C30: among the answered submissions of one (device_id, timestamp) pair, in
\* every interleaving, at most one is answered 201, and all that are answered
\* with success carry the same id.
C30_OneCreatorOneId ==
    \A a \in SReq, b \in SReq :
        (SDone(a) /\ SDone(b) /\ SamePair(a, b)) =>
            /\ (sresp[a].status = 201 /\ sresp[b].status = 201) => a = b
            /\ (sresp[a].success /\ sresp[b].success) => sresp[a].id = sresp[b].id

\* Two submissions of one pair overlapped: the second arrived before the first
\* was answered, the first created the row and the second's insert was
\* rejected.
C30_Witness ==
    \E a \in SReq, b \in SReq :
        /\ a # b /\ SamePair(a, b) /\ SDone(a) /\ SDone(b)
        /\ a \notin shist[b].doneBefore /\ b \notin shist[a].doneBefore
        /\ sresp[a].status = 201 /\ sresp[a].id \in {x.id : x \in RowsOfPair(a)}
        /\ shist[b].violation /\ ~sresp[b].success

====
